---- MODULE Spec2Model ----
(***************************************************************************)
(* State machine of one mounted StateForm (src/modules/states/StateForm.tsx)*)
(* together with the collaborators it drives: the react-hook-form form     *)
(* object, the react-query query ["state", stateId], the create / update   *)
(* mutations, the toast, cache-invalidation and navigation effects, and    *)
(* the server resource that GET / PUT act on.                              *)
(*                                                                         *)
(* Scheduling.  The component runs on the JavaScript event loop.  The      *)
(* submit handler form.handleSubmit(onSubmit) is asynchronous: the submit  *)
(* event starts the zod resolver and onSubmit runs in the continuation.    *)
(* Promise continuations run before the next task, so network responses,   *)
(* unmount and the other user events wait until no validation is pending;  *)
(* only a further submit event (dispatched in the same task) can be        *)
(* delivered while the resolver of an earlier one is still pending.        *)
(***************************************************************************)
EXTENDS Integers, Sequences, FiniteSets, TLC

VARIABLES
    mode,            \* prop mode: "create" | "edit"
    stateId,         \* prop stateId, NoId when omitted
    hasOnSuccess,    \* whether the prop onSuccess was supplied
    mounted,         \* the component is mounted
    fieldValue,      \* form value of stateName
    defaultValue,    \* form defaultValues.stateName
    fieldErrors,     \* form errors: field key -> message or NoError
    isSubmitted,     \* formState.isSubmitted (drives re-validation on change)
    validating,      \* values whose resolver run has not yet completed
    query,           \* state of the query ["state", stateId]
    mutations,       \* every mutation started by mutate(), oldest first
    server,          \* the resource as stored by the server
    getsIssued,      \* GET /api/states/:id requests issued so far
    toastSuccess,    \* toast.success calls so far
    toastError,      \* toast.error calls so far
    invalidatedList, \* invalidateQueries(["states"]) calls so far
    invalidatedItem, \* invalidateQueries(["state", stateId]) calls so far
    onSuccessCalls,  \* calls of the prop onSuccess so far
    navigations,     \* navigate("/states") calls so far
    fieldKey,        \* argument of the latest prettifyFieldName call
    prettyLabel,     \* its result
    errorObj,        \* error object handed to the latest onError
    toastMessage     \* text that onError passed to toast.error

vars == <<mode, stateId, hasOnSuccess, mounted, fieldValue, defaultValue,
          fieldErrors, isSubmitted, validating, query, mutations, server,
          getsIssued, toastSuccess, toastError, invalidatedList,
          invalidatedItem, onSuccessCalls, navigations, fieldKey,
          prettyLabel, errorObj, toastMessage>>

effects == <<toastSuccess, toastError, invalidatedList, invalidatedItem,
             onSuccessCalls, navigations>>

props == <<mode, stateId, hasOnSuccess>>

\* Texts are sequences of characters.  These four variables are driven by
\* ErrorSpec, which exercises the error-message helpers on their own; the
\* actions of Spec count the toasts and leave the texts alone.
errVars == <<fieldKey, prettyLabel, errorObj, toastMessage>>

(***************************************************************************)
(* Bounds                                                                  *)
(***************************************************************************)
MaxMutations == 2     \* mutate() calls in one run
MaxValidating == 2    \* resolver runs pending at once
MaxExits == 1         \* Cancel / Back clicks in one run

(***************************************************************************)
(* Program constants                                                       *)
(***************************************************************************)
NameMin == 1
NameMax == 255

NoId == "undefined"
NoError == "NoError"

\* Strings of 15, 16, 64, 255 and 256 characters.
A15 == "aaaaaaaaaaaaaaa"
A16 == A15 \o "a"
A64 == A16 \o A16 \o A16 \o A16
LongestName == A64 \o A64 \o A64 \o A16 \o A16 \o A16 \o A15
TooLongName == LongestName \o "a"

\* Inputs the user can type: empty, shortest, ordinary, longest valid, too long.
Names == {"", "T", "Texas", LongestName, TooLongName}
StateIds == {NoId, "7"}
ServerNames == {"Goa"}

RequiredMsg == "State name is required"
TooLongMsg == "State name must not exceed 255 characters"

FieldKeys == {"stateName"}

\* Error objects a rejected request can carry: {message, errors?}.
ServerErrors ==
    { [message |-> "Server error", errors |-> {}],
      [message |-> "Validation failed",
       errors |-> {<<"stateName", "stateName already exists">>}] }

NoFieldErrors == [k \in FieldKeys |-> NoError]

(***************************************************************************)
(* stateFormSchema: z.string().min(1, ...).max(255, ...)                   *)
(***************************************************************************)
stateFormSchema_maxExclusive(v) ==
    IF Len(v) < NameMin THEN RequiredMsg
    ELSE IF Len(v) >= NameMax THEN TooLongMsg
    ELSE NoError

stateFormSchema_noMax(v) ==
    IF Len(v) < NameMin THEN RequiredMsg ELSE NoError

stateFormSchema(v) ==
    IF Len(v) < NameMin THEN RequiredMsg
    ELSE IF Len(v) > NameMax THEN TooLongMsg
    ELSE NoError

(***************************************************************************)
(* Derived render state                                                    *)
(***************************************************************************)
\* enabled: !!stateId, the mode test forgotten.
queryEnabled_ignoresMode == stateId # NoId

queryEnabled == mode = "edit" /\ stateId # NoId

\* useQuery's isLoading: a first fetch is in flight (no data yet).
isFetchingState == query.fetchStatus = "fetching" /\ query.status = "pending"

fetchError == query.error

stateData == query.data

\* useMutation's isPending follows the mutation started by the latest mutate().
mutationIsPending ==
    /\ mutations # <<>>
    /\ mutations[Len(mutations)].status = "pending"

createMutationIsPending == mode = "create" /\ mutationIsPending
updateMutationIsPending == mode # "create" /\ mutationIsPending

isFormLoading ==
    createMutationIsPending \/ updateMutationIsPending \/ isFetchingState

LoadingView == mode = "edit" /\ isFetchingState

\* The fetch-error branch, without which the form is rendered after a failed load.
ErrorView_missing == FALSE

ErrorView == ~LoadingView /\ mode = "edit" /\ fetchError
FormView == ~LoadingView /\ ~ErrorView

\* The form is on screen and its input and buttons are enabled.
FormReady == mounted /\ FormView /\ ~isFormLoading

PendingMutations == {i \in 1..Len(mutations) : mutations[i].status = "pending"}

(***************************************************************************)
(* Construction: the component is mounted with its props; every form and   *)
(* mutation is fresh, and an enabled query starts its first fetch.         *)
(***************************************************************************)
Init ==
    /\ mode \in {"create", "edit"}
    /\ stateId \in StateIds
    /\ hasOnSuccess \in BOOLEAN
    /\ mounted = TRUE
    /\ fieldValue = ""
    /\ defaultValue = ""
    /\ fieldErrors = NoFieldErrors
    /\ isSubmitted = FALSE
    /\ validating = <<>>
    /\ query = [status |-> "pending",
                fetchStatus |-> IF queryEnabled THEN "fetching" ELSE "idle",
                data |-> <<>>,
                error |-> FALSE]
    /\ mutations = <<>>
    /\ server \in [stateName : ServerNames, updatedAt : {0}]
    /\ getsIssued = IF queryEnabled THEN 1 ELSE 0
    /\ toastSuccess = 0
    /\ toastError = 0
    /\ invalidatedList = 0
    /\ invalidatedItem = 0
    /\ onSuccessCalls = 0
    /\ navigations = 0
    /\ fieldKey = <<>>
    /\ prettyLabel = <<>>
    /\ errorObj = [errors |-> <<>>, message |-> <<>>]
    /\ toastMessage = <<>>

(***************************************************************************)
(* The user edits the input (enabled only while ~isFormLoading).  After a  *)
(* submit the form re-validates the field on change.                       *)
(***************************************************************************)
Type(v) ==
    /\ FormReady
    /\ validating = <<>>
    /\ v # fieldValue
    /\ fieldValue' = v
    /\ fieldErrors' = IF isSubmitted
                      THEN [fieldErrors EXCEPT !["stateName"] = stateFormSchema(v)]
                      ELSE fieldErrors
    /\ UNCHANGED <<errVars, props, mounted, defaultValue, isSubmitted, validating,
                   query, mutations, server, getsIssued, effects>>

(***************************************************************************)
(* <form onSubmit={form.handleSubmit(onSubmit)}>: a submit event (submit   *)
(* button, enabled only while ~isFormLoading, or Enter in the enabled      *)
(* input) starts the resolver on the current value.                        *)
(***************************************************************************)
SubmitEvent ==
    /\ FormReady
    /\ Len(validating) < MaxValidating
    /\ Len(mutations) + Len(validating) < MaxMutations
    /\ validating' = Append(validating, fieldValue)
    /\ UNCHANGED <<errVars, props, mounted, fieldValue, defaultValue, fieldErrors,
                   isSubmitted, query, mutations, server, getsIssued, effects>>

\* onSubmit: which mutation a valid submit starts.
onSubmit_swapped(data) ==
    IF mode = "create"
    THEN [kind |-> "PUT", id |-> stateId, name |-> data, status |-> "pending"]
    ELSE [kind |-> "POST", id |-> "", name |-> data, status |-> "pending"]

onSubmit(data) ==
    IF mode = "create"
    THEN [kind |-> "POST", id |-> "", name |-> data, status |-> "pending"]
    ELSE [kind |-> "PUT", id |-> stateId, name |-> data, status |-> "pending"]

(***************************************************************************)
(* Continuation of handleSubmit once the resolver has settled: the errors  *)
(* are replaced by the resolver's; without errors onSubmit(data) runs and  *)
(* mutate() starts a request.                                              *)
(***************************************************************************)
ValidationDone ==
    /\ validating # <<>>
    /\ LET v == Head(validating)
           e == stateFormSchema(v)
       IN /\ fieldErrors' = [NoFieldErrors EXCEPT !["stateName"] = e]
          /\ mutations' = IF e = NoError
                          THEN Append(mutations, onSubmit(v))
                          ELSE mutations
    /\ validating' = Tail(validating)
    /\ isSubmitted' = TRUE
    /\ UNCHANGED <<errVars, props, mounted, fieldValue, defaultValue, query, server,
                   getsIssued, effects>>

\* The same response without the effect that resets the form.
FetchSuccess_noReset ==
    /\ query.fetchStatus = "fetching"
    /\ validating = <<>>
    /\ query' = [status |-> "success", fetchStatus |-> "idle",
                 data |-> <<server>>, error |-> FALSE]
    /\ UNCHANGED <<errVars, props, mounted, fieldValue, defaultValue, fieldErrors,
                   isSubmitted, validating, mutations, server, getsIssued,
                   effects>>

(***************************************************************************)
(* GET /api/states/:id resolves.  The effect on [stateData, mode, form]    *)
(* runs in a mounted component when stateData changed and resets the form. *)
(***************************************************************************)
FetchSuccess ==
    /\ query.fetchStatus = "fetching"
    /\ validating = <<>>
    /\ query' = [status |-> "success", fetchStatus |-> "idle",
                 data |-> <<server>>, error |-> FALSE]
    /\ IF mounted /\ mode = "edit" /\ query.data # <<server>>
       THEN /\ fieldValue' = server.stateName
            /\ defaultValue' = server.stateName
            /\ fieldErrors' = NoFieldErrors
            /\ isSubmitted' = FALSE
       ELSE UNCHANGED <<fieldValue, defaultValue, fieldErrors, isSubmitted>>
    /\ UNCHANGED <<errVars, props, mounted, validating, mutations, server, getsIssued,
                   effects>>

\* GET /api/states/:id rejects; retry: false, so the query settles in error.
FetchError ==
    /\ query.fetchStatus = "fetching"
    /\ validating = <<>>
    /\ query' = [query EXCEPT !.status = "error", !.fetchStatus = "idle",
                              !.error = TRUE]
    /\ UNCHANGED <<errVars, props, mounted, fieldValue, defaultValue, fieldErrors,
                   isSubmitted, validating, mutations, server, getsIssued,
                   effects>>

(***************************************************************************)
(* if (onSuccess) onSuccess(); else navigate("/states");                   *)
(* <<calls of onSuccess, calls of navigate>> made by that statement.       *)
(***************************************************************************)
onSuccessOrNavigate_alwaysNavigate == <<0, 1>>

onSuccessOrNavigate_both == <<1, 1>>

onSuccessOrNavigate == IF hasOnSuccess THEN <<1, 0>> ELSE <<0, 1>>

\* Validate(error, form.setError): attaches the server's field-level errors
\* to the form fields of the same key.
Validate(error, errs) ==
    [k \in FieldKeys |->
        IF \E p \in error.errors : p[1] = k
        THEN (CHOOSE p \in error.errors : p[1] = k)[2]
        ELSE errs[k]]

\* queryClient.invalidateQueries({ queryKey: ["state", stateId] }): the query
\* is refetched when this component still observes it and it is enabled.
refetchOnInvalidate == mounted /\ queryEnabled

invalidateStateQuery ==
    IF refetchOnInvalidate
    THEN [query EXCEPT !.fetchStatus = "fetching",
                       !.status = IF query.data = <<>> THEN "pending" ELSE @,
                       !.error = IF query.data = <<>> THEN FALSE ELSE @]
    ELSE query

\* The server accepts a request: a PUT needs an existing resource id.
ServerAccepts(m) == m.kind = "PUT" => m.id # NoId

(***************************************************************************)
(* createMutation.onSuccess, run when POST /api/states resolves.  The      *)
(* callbacks given to useMutation run whether or not the component is      *)
(* still mounted.                                                          *)
(***************************************************************************)
CreateSuccess(i) ==
    /\ i \in PendingMutations
    /\ validating = <<>>
    /\ mutations[i].kind = "POST"
    /\ mutations' = [mutations EXCEPT ![i].status = "success"]
    /\ toastSuccess' = toastSuccess + 1
    /\ invalidatedList' = invalidatedList + 1
    /\ fieldValue' = defaultValue                       \* form.reset()
    /\ fieldErrors' = NoFieldErrors
    /\ isSubmitted' = FALSE
    /\ onSuccessCalls' = onSuccessCalls + onSuccessOrNavigate[1]
    /\ navigations' = navigations + onSuccessOrNavigate[2]
    /\ UNCHANGED <<errVars, props, mounted, defaultValue, validating, query, server,
                   getsIssued, toastError, invalidatedItem>>

(***************************************************************************)
(* updateMutation.onSuccess, run when PUT /api/states/:id resolves.        *)
(***************************************************************************)
UpdateSuccess(i) ==
    /\ i \in PendingMutations
    /\ validating = <<>>
    /\ mutations[i].kind = "PUT"
    /\ ServerAccepts(mutations[i])
    /\ mutations' = [mutations EXCEPT ![i].status = "success"]
    /\ server' = [stateName |-> mutations[i].name,
                  updatedAt |-> server.updatedAt + 1]
    /\ toastSuccess' = toastSuccess + 1
    /\ invalidatedList' = invalidatedList + 1
    /\ invalidatedItem' = invalidatedItem + 1
    /\ query' = invalidateStateQuery
    /\ getsIssued' = IF refetchOnInvalidate /\ query.fetchStatus # "fetching"
                     THEN getsIssued + 1 ELSE getsIssued
    /\ onSuccessCalls' = onSuccessCalls + onSuccessOrNavigate[1]
    /\ navigations' = navigations + onSuccessOrNavigate[2]
    /\ UNCHANGED <<errVars, props, mounted, fieldValue, defaultValue, fieldErrors,
                   isSubmitted, validating, toastError>>

(***************************************************************************)
(* createMutation.onError / updateMutation.onError, run when the request   *)
(* rejects with the error object err.  Mutations are not retried.          *)
(***************************************************************************)
MutationError(i, err) ==
    /\ i \in PendingMutations
    /\ validating = <<>>
    /\ mutations' = [mutations EXCEPT ![i].status = "error"]
    /\ toastError' = toastError + 1
    /\ fieldErrors' = Validate(err, fieldErrors)
    /\ UNCHANGED <<errVars, props, mounted, fieldValue, defaultValue, isSubmitted,
                   validating, query, server, getsIssued, toastSuccess,
                   invalidatedList, invalidatedItem, onSuccessCalls,
                   navigations>>

\* Cancel button (enabled only while ~isFormLoading).
handleCancel ==
    /\ FormReady
    /\ validating = <<>>
    /\ onSuccessCalls + navigations < MaxExits + MaxMutations
    /\ onSuccessCalls' = onSuccessCalls + onSuccessOrNavigate[1]
    /\ navigations' = navigations + onSuccessOrNavigate[2]
    /\ UNCHANGED <<errVars, props, mounted, fieldValue, defaultValue, fieldErrors,
                   isSubmitted, validating, query, mutations, server,
                   getsIssued, toastSuccess, toastError, invalidatedList,
                   invalidatedItem>>

\* The button wired to handleCancel's body instead of navigate("/states").
BackToStates_likeCancel ==
    /\ mounted
    /\ ErrorView
    /\ validating = <<>>
    /\ onSuccessCalls + navigations < MaxExits + MaxMutations
    /\ onSuccessCalls' = onSuccessCalls + onSuccessOrNavigate[1]
    /\ navigations' = navigations + onSuccessOrNavigate[2]
    /\ UNCHANGED <<errVars, props, mounted, fieldValue, defaultValue, fieldErrors,
                   isSubmitted, validating, query, mutations, server,
                   getsIssued, toastSuccess, toastError, invalidatedList,
                   invalidatedItem>>

\* "Back to States" button of the fetch-error view.
BackToStates ==
    /\ mounted
    /\ ErrorView
    /\ validating = <<>>
    /\ onSuccessCalls + navigations < MaxExits + MaxMutations
    /\ navigations' = navigations + 1
    /\ UNCHANGED <<errVars, props, mounted, fieldValue, defaultValue, fieldErrors,
                   isSubmitted, validating, query, mutations, server,
                   getsIssued, toastSuccess, toastError, invalidatedList,
                   invalidatedItem, onSuccessCalls>>

\* The host removes the component; requests in flight are not cancelled.
Unmount ==
    /\ mounted
    /\ validating = <<>>
    /\ mounted' = FALSE
    /\ UNCHANGED <<errVars, props, fieldValue, defaultValue, fieldErrors, isSubmitted,
                   validating, query, mutations, server, getsIssued, effects>>

Next ==
    \/ \E v \in Names : Type(v)
    \/ SubmitEvent
    \/ ValidationDone
    \/ FetchSuccess
    \/ FetchError
    \/ \E i \in 1..MaxMutations : CreateSuccess(i)
    \/ \E i \in 1..MaxMutations : UpdateSuccess(i)
    \/ \E i \in 1..MaxMutations, err \in ServerErrors : MutationError(i, err)
    \/ handleCancel
    \/ BackToStates
    \/ Unmount

Spec == Init /\ [][Next]_vars

TypeOK ==
    /\ mode \in {"create", "edit"}
    /\ stateId \in StateIds
    /\ fieldValue \in Names \cup ServerNames
    /\ Len(mutations) <= MaxMutations
    /\ Len(validating) <= MaxValidating

(***************************************************************************)
(* Vocabulary of the properties                                            *)
(***************************************************************************)
\* The step completes the resolver run of the oldest pending submit.
ValidationCompletes == validating # <<>> /\ validating' = Tail(validating)

ValidLength(v) == Len(v) >= NameMin /\ Len(v) <= NameMax

\* Mutation i receives its response in the step.
Succeeds(i) ==
    /\ i \in PendingMutations
    /\ mutations'[i].status = "success"

Fails(i) ==
    /\ i \in PendingMutations
    /\ mutations'[i].status = "error"

\* Requests on the wire: the GET of the query plus the unsettled POST / PUT.
OutstandingRequests ==
    Cardinality(PendingMutations)
        + (IF query.fetchStatus = "fetching" THEN 1 ELSE 0)

\* The Edit-mode load has failed: the query is in error and never had data.
FetchFailed == mode = "edit" /\ query.status = "error" /\ stateData = <<>>

(***************************************************************************)
(* C1.  A submit of a name of length 1..255 issues exactly one request     *)
(* carrying that name - POST to the collection in Create mode, PUT         *)
(* addressed by stateId in Edit mode - and leaves no validation error.     *)
(***************************************************************************)
C1_ValidSubmitIssuesOneRequest ==
    [][ (ValidationCompletes /\ ValidLength(Head(validating)))
        => /\ Len(mutations') = Len(mutations) + 1
           /\ \A i \in 1..Len(mutations) : mutations'[i] = mutations[i]
           /\ LET r == mutations'[Len(mutations')]
              IN /\ r.name = Head(validating)
                 /\ r.status = "pending"
                 /\ mode = "create" => (r.kind = "POST" /\ r.id = "")
                 /\ mode = "edit" => (r.kind = "PUT" /\ r.id = stateId)
           /\ fieldErrors' = NoFieldErrors
           /\ getsIssued' = getsIssued ]_vars

\* The longest valid name is on its way in the only request, no error is set.
C1_Witness ==
    /\ mode = "edit"
    /\ stateId # NoId
    /\ Len(mutations) = 1
    /\ mutations[1] = [kind |-> "PUT", id |-> stateId, name |-> LongestName,
                       status |-> "pending"]
    /\ OutstandingRequests = 1
    /\ fieldErrors = NoFieldErrors

(***************************************************************************)
(* C2.  A submit of an empty name or of a name longer than 255 characters  *)
(* issues no request and sets an error on the stateName field.             *)
(***************************************************************************)
C2_InvalidSubmitBlocked ==
    [][ (ValidationCompletes /\ ~ValidLength(Head(validating)))
        => /\ mutations' = mutations
           /\ getsIssued' = getsIssued
           /\ fieldErrors'["stateName"] # NoError ]_vars

\* A 256-character name was submitted: error set, nothing sent.
C2_Witness ==
    /\ fieldValue = TooLongName
    /\ fieldErrors["stateName"] = TooLongMsg
    /\ isSubmitted
    /\ mutations = <<>>

(***************************************************************************)
(* C3.  In Edit mode an update request is issued only after the fetch of   *)
(* the resource has succeeded (also without a stateId); in Create mode no  *)
(* fetch is ever issued.                                                   *)
(***************************************************************************)
C3_SubmitOnlyAfterFetch ==
    /\ (mode = "edit" /\ mutations # <<>>) => stateData # <<>>
    /\ mode = "create" => getsIssued = 0

(***************************************************************************)
(* C4.  At most one create / update request is outstanding at any time,    *)
(* whatever the interleaving of submit events, validations and responses.  *)
(***************************************************************************)
C4_AtMostOneSubmissionInFlight == Cardinality(PendingMutations) <= 1

(***************************************************************************)
(* C5.  Each successful create / update response fires exactly one success *)
(* toast, invalidates the list cache (an update also the item entry), and  *)
(* fires exactly one of onSuccess / navigate("/states"): the callback if   *)
(* it was supplied, otherwise the navigation.                              *)
(***************************************************************************)
C5_SuccessEffectsOnce ==
    [][ \A i \in 1..Len(mutations) :
          Succeeds(i)
          => /\ toastSuccess' = toastSuccess + 1
             /\ toastError' = toastError
             /\ invalidatedList' = invalidatedList + 1
             /\ invalidatedItem' = invalidatedItem
                    + (IF mutations[i].kind = "PUT" THEN 1 ELSE 0)
             /\ onSuccessCalls' = onSuccessCalls + (IF hasOnSuccess THEN 1 ELSE 0)
             /\ navigations' = navigations + (IF hasOnSuccess THEN 0 ELSE 1) ]_vars

\* An update has succeeded in a form given a callback.
C5_Witness ==
    /\ mode = "edit"
    /\ hasOnSuccess
    /\ Len(mutations) = 1
    /\ mutations[1].status = "success"
    /\ toastSuccess = 1
    /\ invalidatedList = 1
    /\ invalidatedItem = 1
    /\ onSuccessCalls = 1
    /\ navigations = 0

(***************************************************************************)
(* C6.  A rejected submission of a mounted form raises one error toast and *)
(* no success effect, keeps the field value, retries nothing, and leaves   *)
(* the form editable with submit accepted.                                 *)
(***************************************************************************)
C6_RejectionLeavesFormEditable ==
    [][ \A i \in 1..Len(mutations) :
          (mounted /\ Fails(i))
          => /\ toastError' = toastError + 1
             /\ UNCHANGED <<toastSuccess, invalidatedList, invalidatedItem,
                            onSuccessCalls, navigations>>
             /\ fieldValue' = fieldValue
             /\ Len(mutations') = Len(mutations)
             /\ getsIssued' = getsIssued
             /\ FormReady' ]_vars

(***************************************************************************)
(* C7.  Once the Edit-mode load has failed the form is never rendered, no  *)
(* update request is ever issued and the fetch is not retried: the state   *)
(* is terminal.                                                            *)
(***************************************************************************)
C7_FetchFailedIsTerminal ==
    /\ [](FetchFailed => /\ ~FormView
                         /\ ~FormReady
                         /\ mutations = <<>>
                         /\ validating = <<>>
                         /\ query.fetchStatus = "idle"
                         /\ getsIssued = 1)
    /\ [][FetchFailed => (FetchFailed' /\ UNCHANGED <<mutations, validating,
                                                      getsIssued, query>>)]_vars

\* The load failed and the user went back from the error view.
C7_Witness ==
    /\ FetchFailed
    /\ mounted
    /\ ErrorView
    /\ navigations = 1

(***************************************************************************)
(* C8.  After the component is unmounted no response changes the form      *)
(* state (field value, default value, field errors).                       *)
(***************************************************************************)
C8_NoFormUpdateAfterUnmount ==
    [][~mounted => UNCHANGED <<fieldValue, defaultValue, fieldErrors,
                               isSubmitted>>]_vars

(***************************************************************************)
(* C9.  An Edit-mode form constructed without stateId never becomes ready  *)
(* and never issues a fetch or an update request.                          *)
(***************************************************************************)
C9_EditWithoutIdRejected ==
    (mode = "edit" /\ stateId = NoId)
    => /\ ~FormReady
       /\ validating = <<>>
       /\ mutations = <<>>
       /\ getsIssued = 0

(***************************************************************************)
(* C10.  At most one network request (load and submissions counted         *)
(* together) is outstanding at any time.                                   *)
(***************************************************************************)
C10_SingleOutstandingRequest == OutstandingRequests <= 1

(***************************************************************************)
(* C11.  In Edit mode the successful load of a mounted form sets the field *)
(* value to the stateName of the fetched resource and leaves the form      *)
(* ready.                                                                  *)
(***************************************************************************)
C11_LoadPopulatesField ==
    [][ (mounted /\ mode = "edit" /\ stateData = <<>> /\ stateData' # <<>>)
        => /\ fieldValue' = stateData'[1].stateName
           /\ stateData'[1] = server
           /\ fieldErrors' = NoFieldErrors
           /\ FormReady' ]_vars

\* The load has returned "Goa" and the untouched form shows it.
C11_Witness ==
    /\ mode = "edit"
    /\ stateData # <<>>
    /\ stateData[1].stateName = "Goa"
    /\ fieldValue = "Goa"
    /\ FormReady
    /\ mutations = <<>>

(***************************************************************************)
(* C12.  A click on Cancel calls onSuccess if it was supplied and          *)
(* navigate("/states") otherwise - exactly one of them, once - and does    *)
(* nothing else: no request, no toast, no invalidation, whatever the       *)
(* field value is.                                                         *)
(***************************************************************************)
\* The step is a click on an exit button: an exit fires without a response.
ExitClick ==
    /\ mounted
    /\ mutations' = mutations
    /\ query' = query
    /\ onSuccessCalls' # onSuccessCalls \/ navigations' # navigations

C12_CancelExitsOnce ==
    [][ (ExitClick /\ FormView)
        => /\ onSuccessCalls' = onSuccessCalls + (IF hasOnSuccess THEN 1 ELSE 0)
           /\ navigations' = navigations + (IF hasOnSuccess THEN 0 ELSE 1)
           /\ UNCHANGED <<toastSuccess, toastError, invalidatedList,
                          invalidatedItem, getsIssued, validating, fieldValue,
                          defaultValue, fieldErrors, isSubmitted, mounted,
                          server>> ]_vars

\* Cancel was clicked on an invalid, unsaved value in a form given a callback.
C12_Witness ==
    /\ mounted
    /\ hasOnSuccess
    /\ fieldValue = TooLongName
    /\ mutations = <<>>
    /\ onSuccessCalls = 1
    /\ navigations = 0
    /\ toastSuccess = 0
    /\ toastError = 0

(***************************************************************************)
(* C16.  A Create-mode form issues only POST requests (no fetch, no PUT);  *)
(* an Edit-mode form issues only fetches and PUT requests addressed to its *)
(* own stateId (no POST).                                                  *)
(***************************************************************************)
C16_ModeIsolation ==
    /\ mode = "create"
       => /\ getsIssued = 0
          /\ query.fetchStatus = "idle"
          /\ \A i \in 1..Len(mutations) : mutations[i].kind = "POST"
    /\ mode = "edit"
       => /\ \A i \in 1..Len(mutations) :
                mutations[i].kind = "PUT" /\ mutations[i].id = stateId
          /\ stateId = NoId => getsIssued = 0

\* A Create-mode form that was handed a stateId has created two resources.
C16_Witness ==
    /\ mode = "create"
    /\ stateId # NoId
    /\ Len(mutations) = 2
    /\ mutations[1].status = "success"
    /\ mutations[2].kind = "POST"

(***************************************************************************)
(* C17.  In Edit mode, once the load has succeeded, the field value        *)
(* changes only by user input: no later response overwrites it.            *)
(***************************************************************************)
C17_OnlyUserChangesValue ==
    [][ (mode = "edit" /\ stateData # <<>> /\ fieldValue' # fieldValue)
        => (query' = query /\ mutations' = mutations) ]_vars

(***************************************************************************)
(* C18.  In the fetch-error view the only user action is "Back to          *)
(* States": it calls navigate("/states") once and never calls onSuccess,   *)
(* supplied or not, and changes nothing else.                              *)
(***************************************************************************)
C18_BackAlwaysNavigates ==
    [][ (mounted /\ ErrorView /\ mounted' /\ mutations' = mutations
                 /\ query' = query)
        => /\ navigations' = navigations + 1
           /\ UNCHANGED <<onSuccessCalls, toastSuccess, toastError,
                          invalidatedList, invalidatedItem, getsIssued,
                          validating, fieldValue, defaultValue, fieldErrors,
                          isSubmitted, server>> ]_vars

\* The load failed in a form given a callback, and Back was clicked.
C18_Witness ==
    /\ mounted
    /\ FetchFailed
    /\ ErrorView
    /\ hasOnSuccess
    /\ navigations = 1
    /\ onSuccessCalls = 0

(***************************************************************************)
(* Error-message helpers.  A text is a sequence of one-character strings.  *)
(***************************************************************************)
LowerCase ==
    <<"a", "b", "c", "d", "e", "f", "g", "h", "i", "j", "k", "l", "m",
      "n", "o", "p", "q", "r", "s", "t", "u", "v", "w", "x", "y", "z">>
UpperCase ==
    <<"A", "B", "C", "D", "E", "F", "G", "H", "I", "J", "K", "L", "M",
      "N", "O", "P", "Q", "R", "S", "T", "U", "V", "W", "X", "Y", "Z">>

IsUpper(c) == \E i \in 1..Len(UpperCase) : UpperCase[i] = c
IsLower(c) == \E i \in 1..Len(LowerCase) : LowerCase[i] = c

toUpperCase(c) ==
    IF IsLower(c)
    THEN UpperCase[CHOOSE i \in 1..Len(LowerCase) : LowerCase[i] = c]
    ELSE c

toLowerCase(c) ==
    IF IsUpper(c)
    THEN LowerCase[CHOOSE i \in 1..Len(UpperCase) : UpperCase[i] = c]
    ELSE c

\* key.split("_"): the segments between underscores, empty ones included.
RECURSIVE splitFrom(_, _, _)
splitFrom(t, i, cur) ==
    IF i > Len(t) THEN <<cur>>
    ELSE IF t[i] = "_" THEN <<cur>> \o splitFrom(t, i + 1, <<>>)
    ELSE splitFrom(t, i + 1, Append(cur, t[i]))

split(t) == splitFrom(t, 1, <<>>)

\* field.replace(/(key|id)$/i, "")
stripKeyOrId(f) ==
    LET n == Len(f)
        low == [i \in 1..n |-> toLowerCase(f[i])]
    IN IF n >= 3 /\ SubSeq(low, n - 2, n) = <<"k", "e", "y">>
       THEN SubSeq(f, 1, n - 3)
       ELSE IF n >= 2 /\ SubSeq(low, n - 1, n) = <<"i", "d">>
       THEN SubSeq(f, 1, n - 2)
       ELSE f

\* field.replace(/([A-Z])/g, " $1")
RECURSIVE spaceBeforeUpper(_)
spaceBeforeUpper(f) ==
    IF f = <<>> THEN <<>>
    ELSE (IF IsUpper(Head(f)) THEN <<" ", Head(f)>> ELSE <<Head(f)>>)
             \o spaceBeforeUpper(Tail(f))

\* String.prototype.trim, for the only white space that occurs: the space.
RECURSIVE trimStart(_)
trimStart(f) ==
    IF f # <<>> /\ Head(f) = " " THEN trimStart(Tail(f)) ELSE f

RECURSIVE trimEnd(_)
trimEnd(f) ==
    IF f # <<>> /\ f[Len(f)] = " " THEN trimEnd(SubSeq(f, 1, Len(f) - 1)) ELSE f

trim(f) == trimEnd(trimStart(f))

\* field.charAt(0).toUpperCase() + field.slice(1)
capitalize(f) == IF f = <<>> THEN <<>> ELSE <<toUpperCase(f[1])>> \o Tail(f)

\* Takes the first segment instead of the second.
prettifyFieldName_firstSegment(key) ==
    capitalize(trim(spaceBeforeUpper(stripKeyOrId(split(key)[1]))))

prettifyFieldName(key) ==
    LET parts == split(key)
        field == IF Len(parts) > 1 THEN parts[2] ELSE key
    IN capitalize(trim(spaceBeforeUpper(stripKeyOrId(field))))

\* message.replace(firstKey, pretty): the first occurrence only; the texts
\* used here hold no "$", so pretty is inserted literally.
replaceFirst(message, key, pretty) ==
    LET hits == {i \in 1..(Len(message) - Len(key) + 1) :
                    SubSeq(message, i, i + Len(key) - 1) = key}
    IN IF hits = {} THEN message
       ELSE LET i == CHOOSE h \in hits : \A g \in hits : h <= g
            IN SubSeq(message, 1, i - 1) \o pretty
                   \o SubSeq(message, i + Len(key), Len(message))

(***************************************************************************)
(* extractErrorMessage.  error.errors is the sequence of its entries in    *)
(* key order (empty when absent); an absent or empty text is <<>>, which   *)
(* is how the code's truthiness tests treat both.                          *)
(***************************************************************************)
extractErrorMessage_genericFirst(error) ==
    IF error.message # <<>> THEN error.message
    ELSE IF error.errors # <<>> /\ error.errors[1].key # <<>>
            /\ error.errors[1].message # <<>>
    THEN replaceFirst(error.errors[1].message, error.errors[1].key,
                      prettifyFieldName(error.errors[1].key))
    ELSE <<>>

extractErrorMessage(error) ==
    IF error.errors # <<>> /\ error.errors[1].key # <<>>
       /\ error.errors[1].message # <<>>
    THEN replaceFirst(error.errors[1].message, error.errors[1].key,
                      prettifyFieldName(error.errors[1].key))
    ELSE error.message

FailedToCreate == <<"F", "a", "i", "l", "e", "d", " ", "t", "o", " ", "c", "r", "e", "a", "t", "e", " ", "s", "t", "a", "t", "e">>
FailedToUpdate == <<"F", "a", "i", "l", "e", "d", " ", "t", "o", " ", "u", "p", "d", "a", "t", "e", " ", "s", "t", "a", "t", "e">>

\* const message = extractErrorMessage(error) || "Failed to ... state"
onErrorMessage(error) ==
    IF extractErrorMessage(error) # <<>> THEN extractErrorMessage(error)
    ELSE IF mode = "create" THEN FailedToCreate ELSE FailedToUpdate

(***************************************************************************)
(* Inputs of ErrorSpec                                                     *)
(***************************************************************************)
KeyPrefixes == {<<>>, <<"s", "t", "a", "t", "e", "s", "_">>, <<"_">>}
KeyStems == {<<>>, <<"s", "t", "a", "t", "e">>, <<"s", "t", "a", "t", "e", "N", "a", "m", "e">>, <<"S", "t", "a", "t", "e">>, <<"m", "y">>, <<"z", "i", "p", "_", "c", "o", "d", "e">>}
KeySuffixes ==
    {<<>>, <<"K", "e", "y">>, <<"I", "d">>, <<"k", "e", "y">>, <<"i", "d">>,
     <<"I", "D">>, <<"K", "E", "Y">>, <<"I", "d", "s">>}

\* Server field keys: table prefix, camel-case stem, key / id suffix.
FieldKeyInputs ==
    {p \o m \o x : p \in KeyPrefixes, m \in KeyStems, x \in KeySuffixes}
        \ {<<>>}

ErrorKeys ==
    {<<"s", "t", "a", "t", "e", "s", "_", "s", "t", "a", "t", "e", "K", "e", "y">>,
     <<"s", "t", "a", "t", "e", "s", "_", "s", "t", "a", "t", "e", "N", "a", "m", "e", "I", "d">>,
     <<"s", "t", "a", "t", "e", "N", "a", "m", "e">>,
     <<"i", "d">>, <<"s", "t", "a", "t", "e", "I", "d">>,
     <<"z", "i", "p", "_", "c", "o", "d", "e">>}
Taken == <<" ", "t", "a", "k", "e", "n">>
Invalid == <<"I", "n", "v", "a", "l", "i", "d">>
Oops == <<"O", "o", "p", "s">>

\* Texts a field-level error can carry for key k: none, one without the key,
\* the key alone, the key once, the key twice.
FieldMessages(k) ==
    {<<>>, Invalid, k, k \o Taken, k \o <<" ">> \o k \o Taken}

GenericMessages == {<<>>, Oops}

\* Error objects {message?, errors?}: no field errors, one, or two of them.
ErrorObjects ==
    {[errors |-> <<>>, message |-> g] : g \in GenericMessages}
    \cup UNION {{[errors |-> <<[key |-> k, message |-> m]>>, message |-> g] :
                    m \in FieldMessages(k), g \in GenericMessages} :
                 k \in ErrorKeys}
    \cup {[errors |-> <<[key |-> k, message |-> m],
                        [key |-> Invalid, message |-> Oops]>>,
           message |-> g] :
            k \in ErrorKeys, m \in {<<>>, Invalid},
            g \in GenericMessages}

(***************************************************************************)
(* ErrorSpec: the helpers applied to every input above, in either mode.    *)
(***************************************************************************)
ErrorInit == Init /\ stateId = NoId /\ ~hasOnSuccess

\* prettifyFieldName(k)
PrettifyFieldName(k) ==
    /\ fieldKey' = k
    /\ prettyLabel' = prettifyFieldName(k)
    /\ errorObj' = [errors |-> <<>>, message |-> <<>>]
    /\ toastMessage' = <<>>
    /\ UNCHANGED <<props, mounted, fieldValue, defaultValue, fieldErrors,
                   isSubmitted, validating, query, mutations, server,
                   getsIssued, effects>>

\* The message part of createMutation.onError / updateMutation.onError.
OnErrorToast(error) ==
    /\ errorObj' = error
    /\ toastMessage' = onErrorMessage(error)
    /\ fieldKey' = <<>>
    /\ prettyLabel' = <<>>
    /\ UNCHANGED <<props, mounted, fieldValue, defaultValue, fieldErrors,
                   isSubmitted, validating, query, mutations, server,
                   getsIssued, effects>>

ErrorNext ==
    \/ \E k \in FieldKeyInputs : PrettifyFieldName(k)
    \/ \E error \in ErrorObjects : OnErrorToast(error)

ErrorSpec == ErrorInit /\ [][ErrorNext]_vars

(***************************************************************************)
(* C13.  prettifyFieldName maps "states_stateKey" to "State" and           *)
(* "states_stateNameId" to "State Name".                                   *)
(***************************************************************************)
C13_PrettifyExamples ==
    /\ fieldKey = <<"s", "t", "a", "t", "e", "s", "_", "s", "t", "a", "t", "e", "K", "e", "y">>
       => prettyLabel = <<"S", "t", "a", "t", "e">>
    /\ fieldKey = <<"s", "t", "a", "t", "e", "s", "_", "s", "t", "a", "t", "e", "N", "a", "m", "e", "I", "d">>
       => prettyLabel = <<"S", "t", "a", "t", "e", " ", "N", "a", "m", "e">>

\* prettifyFieldName("states_stateNameId") has returned "State Name".
C13_Witness ==
    /\ fieldKey = <<"s", "t", "a", "t", "e", "s", "_", "s", "t", "a", "t", "e", "N", "a", "m", "e", "I", "d">>
    /\ prettyLabel = <<"S", "t", "a", "t", "e", " ", "N", "a", "m", "e">>

(***************************************************************************)
(* C14.  prettifyFieldName maps the key "id" to the label "Id".            *)
(***************************************************************************)
C14_IdLabel ==
    fieldKey = <<"i", "d">> => prettyLabel = <<"I", "d">>

(***************************************************************************)
(* C15.  The text of the error toast is the first field-level message with *)
(* the key replaced by its label, if the first field-level error has a     *)
(* message; otherwise the generic message; otherwise "Failed to create     *)
(* state" / "Failed to update state" by mode.  It is never empty.          *)
(***************************************************************************)
ClaimedToast(error) ==
    IF error.errors # <<>> /\ error.errors[1].message # <<>>
    THEN replaceFirst(error.errors[1].message, error.errors[1].key,
                      prettifyFieldName(error.errors[1].key))
    ELSE IF error.message # <<>> THEN error.message
    ELSE IF mode = "create" THEN FailedToCreate ELSE FailedToUpdate

\* A step with fieldKey' = <<>> is a run of onError on errorObj'.
C15_ToastTextChoice ==
    [][ fieldKey' = <<>>
        => /\ toastMessage' = ClaimedToast(errorObj')
           /\ toastMessage' # <<>> ]_vars

====
